---- MODULE Spec2Model ----
(***************************************************************************)
(* Model of the PIC in-circuit serial programmer core of                   *)
(* oldfirmware/pic.c: the bit codec, the program-counter state machine,    *)
(* the device detector and the streaming read.                             *)
(*                                                                         *)
(* The programmer's session is (state, program_counter, profile).  The     *)
(* operators below work on a "machine" record                              *)
(*     m = [state, pc, hw, log]                                            *)
(* where hw holds the pin levels and the target chip's own address         *)
(* counter, and log is the sequence of calls/commands issued so far by     *)
(* the operation in progress; at[i] is the state and the tracked counter   *)
(* in which log[i] was issued.                                             *)
(***************************************************************************)
EXTENDS Integers, Sequences, FiniteSets, TLC

VARIABLES
    state,            \* _state
    program_counter,  \* _program_counter
    profile,          \* programEnd .. dataFlashType (the active profile)
    devices,          \* the built-in device table
    dev,              \* the chip sitting in the programming socket
    hw,               \* pin levels and the chip's address counter
    region,           \* history: region of the most recent access, "None" when idle
    last,             \* history: the operation that ran last
    prev,             \* history: summary of the operation before it
    rd                \* activation record of pic_command_read

vars == <<state, program_counter, profile, devices, dev, hw, region, last, prev, rd>>

-----------------------------------------------------------------------------
(* Bounds of the model *)

\* largest Program address requested through read_word
MaxProgAddr == 16
\* largest Data offset requested through read_word
MaxDataOff == 1
\* longest range read, in whole 256-word chunks (plus one word)
MaxChunks == 2
\* largest value put on the data line for a read
MaxWord == 65535
\* width in bits of the start and end addresses of a range read (uint32_t
\* in the program, scaled down here)
AddrBits == 10

-----------------------------------------------------------------------------
(* Program constants *)

STATE_IDLE    == "Idle"
STATE_PROGRAM == "InProgram"
STATE_CONFIG  == "InConfig"

CMD_LOAD_CONFIG         == "load_config"
CMD_INCREMENT_ADDRESS   == "inc"
CMD_READ_PROGRAM_MEMORY == "read_prog"
CMD_READ_DATA_MEMORY    == "read_data"

\* calls of _enter_program_mode / _exit_program_mode as they appear in a log
EV_ENTER      == "enter"
EV_ENTER_NOOP == "enter_noop"
EV_EXIT       == "exit"
EV_EXIT_NOOP  == "exit_noop"

DEV_USERID0     == 0
DEV_USERID1     == 1
DEV_USERID2     == 2
DEV_USERID3     == 3
DEV_ID          == 6
DEV_CONFIG_WORD == 7

SP_OK                      == "SP_OK"
SP_ERR_DEVICE_NOT_DETECTED == "SP_ERR_DEVICE_NOT_DETECTED"
SP_STATUS_READ_MORE        == "SP_STATUS_READ_MORE"
SP_STATUS_READ_DONE        == "SP_STATUS_READ_DONE"

DefaultProgramEnd    == 2047
DefaultConfigStart   == 8192
DefaultConfigEnd     == 8199
DefaultDataStart     == 8448
DefaultDataEnd       == 8575
DefaultReservedStart == 2048
DefaultReservedEnd   == 2047
DefaultConfigSave    == 0

DefaultProfile ==
    [programEnd    |-> DefaultProgramEnd,
     configStart   |-> DefaultConfigStart,
     configEnd     |-> DefaultConfigEnd,
     dataStart     |-> DefaultDataStart,
     dataEnd       |-> DefaultDataEnd,
     reservedStart |-> DefaultReservedStart,
     reservedEnd   |-> DefaultReservedEnd,
     configSave    |-> DefaultConfigSave,
     progFlashType |-> "FLASH4",
     dataFlashType |-> "EEPROM"]

-----------------------------------------------------------------------------
(* The device table (pic_devices.h) *)

DeviceInfo(name, deviceId, programSize, configStart, dataStart, configSize, dataSize, reservedWords, configSave, progFlashType, dataFlashType) ==
    [name |-> name, deviceId |-> deviceId, programSize |-> programSize,
     configStart |-> configStart, dataStart |-> dataStart,
     configSize |-> configSize, dataSize |-> dataSize,
     reservedWords |-> reservedWords, configSave |-> configSave,
     progFlashType |-> progFlashType, dataFlashType |-> dataFlashType]

\* a table of identified parts; two entries share the pattern 0x0F80
TableIdentified ==
    << DeviceInfo("pic12f629",  3968, 1024, 8192, 8448, 8, 128, 1, 12288, "FLASH4", "EEPROM"),
       DeviceInfo("pic16f628a", 4192, 2048, 8192, 8448, 8, 128, 0, 0,     "FLASH4", "EEPROM"),
       DeviceInfo("pic12f629b", 3968,  512, 8192, 8448, 8,  64, 0, 0,     "FLASH",  "EEPROM") >>

\* the same table followed by a part registered with the device-id pattern 0
TableWithZeroId ==
    TableIdentified \o
    << DeviceInfo("pic16f84", 0, 1024, 8192, 8448, 8, 64, 0, 0, "FLASH", "EEPROM") >>

Tables == {TableIdentified, TableWithZeroId}

-----------------------------------------------------------------------------
(* The chip in the socket and the wire *)

\* a chip: the word its four user-id locations hold, its device-id word, its
\* config word, and the one Program address (or -1) that holds a nonzero word
Chip(uid, id, cw, nz) == [uid |-> uid, id |-> id, cw |-> cw, nz |-> nz]

\* an empty socket: every read returns zero
NoChip == Chip(0, 0, 0, -1)

Chips ==
    { NoChip,
      Chip(0, 3969, 16383, 0),      \* id 0x0F81: pattern 0x0F80
      Chip(0, 4198, 16144, 0),      \* id 0x1066: pattern 0x1060
      Chip(0, 4660, 16383, 0),      \* id 0x1234: in no table
      Chip(0, 0, 16369, -1),        \* legacy part: id 0, config word set
      Chip(5, 16383, 0, -1),        \* id reads all-ones, user id set
      Chip(0, 0, 0, 0),             \* id 0, config all zero, program word 0 set
      Chip(0, 0, 0, 15),            \* ... program word 15 set
      Chip(0, 0, 0, 16) }           \* ... program word 16 set

\* the 14-bit word the chip holds at config offset k
ChipConfig(d, k) ==
    IF k \in {DEV_USERID0, DEV_USERID1, DEV_USERID2, DEV_USERID3} THEN d.uid
    ELSE IF k = DEV_ID THEN d.id
    ELSE IF k = DEV_CONFIG_WORD THEN d.cw
    ELSE 0

\* the 14-bit word the chip holds at Program address a
ChipProgram(d, a) == IF a = d.nz THEN 10922 ELSE 0

\* the 8-bit word the chip holds at Data offset a (an empty socket reads 0)
ChipData(d, a) == IF d = NoChip THEN 0 ELSE (a + 1) % 256

\* the word addressed by the chip's own counter for a read opcode
ChipWord(h, d, cmd) ==
    IF ~h.vdd THEN 0
    ELSE IF cmd = CMD_READ_DATA_MEMORY THEN ChipData(d, h.cpc)
    ELSE IF h.ccfg THEN ChipConfig(d, h.cpc)
    ELSE ChipProgram(d, h.cpc)

\* the 16 wire bits of a read, in clock order: start bit, data LSB first, stop bit
WireBits(v) == [i \in 1..16 |-> ((2 * v) \div (2 ^ (i - 1))) % 2]

-----------------------------------------------------------------------------
(* Program-mode entry and exit *)

Machine(st, pc, h, log) == [state |-> st, pc |-> pc, hw |-> h, log |-> log, at |-> [i \in DOMAIN log |-> [st |-> st, pc |-> pc, cpc |-> h.cpc, ccfg |-> h.ccfg, vdd |-> h.vdd, vpp |-> h.vpp]]]

\* the _state and _program_counter in which an entry of the log is issued
\* once k more increments have run, with the chip's counter and the power
\* pins at that moment
NowAt(m, k) ==
    [st |-> m.state, pc |-> m.pc + k,
     cpc |-> IF m.hw.vdd THEN m.hw.cpc + k ELSE m.hw.cpc,
     ccfg |-> m.hw.ccfg, vdd |-> m.hw.vdd, vpp |-> m.hw.vpp]

Now(m) == NowAt(m, 0)

Emit(m, e) == [m EXCEPT !.log = Append(@, e), !.at = Append(@, Now(m))]

\* pins and chip after the power-up sequence of _enter_program_mode
HwPowered ==
    [vpp |-> TRUE, vdd |-> TRUE, dataDir |-> "out", clockDir |-> "out",
     clock |-> 0, cpc |-> 0, ccfg |-> FALSE]

\* pins and chip after the power-down sequence of _exit_program_mode
HwOff ==
    [vpp |-> FALSE, vdd |-> FALSE, dataDir |-> "in", clockDir |-> "in",
     clock |-> 0, cpc |-> 0, ccfg |-> FALSE]

\* pins after pic_initialize: only the DATA pin has been configured
HwInitial ==
    [vpp |-> FALSE, vdd |-> FALSE, dataDir |-> "out", clockDir |-> "in",
     clock |-> 0, cpc |-> 0, ccfg |-> FALSE]

enter_program_mode(m) ==
    IF m.state # STATE_IDLE THEN Emit(m, EV_ENTER_NOOP)
    ELSE [Emit(m, EV_ENTER) EXCEPT !.state = STATE_PROGRAM, !.pc = 0, !.hw = HwPowered]

\* (variant: the exit leaves MCLR and VDD as they are)
exit_program_mode_KeepPower(m) ==
    IF m.state = STATE_IDLE THEN Emit(m, EV_EXIT_NOOP)
    ELSE [Emit(m, EV_EXIT) EXCEPT !.state = STATE_IDLE, !.pc = 0,
                                  !.hw = [@ EXCEPT !.dataDir = "in", !.clockDir = "in"]]

exit_program_mode(m) ==
    IF m.state = STATE_IDLE THEN Emit(m, EV_EXIT_NOOP)
    ELSE [Emit(m, EV_EXIT) EXCEPT !.state = STATE_IDLE, !.pc = 0, !.hw = HwOff]

-----------------------------------------------------------------------------
(* Bit codec *)

\* the chip's reaction to an opcode once its six bits have been clocked in
ChipExec(h, cmd) ==
    IF ~h.vdd THEN h
    ELSE IF cmd = CMD_LOAD_CONFIG THEN [h EXCEPT !.ccfg = TRUE, !.cpc = 0]
    ELSE IF cmd = CMD_INCREMENT_ADDRESS THEN [h EXCEPT !.cpc = @ + 1]
    ELSE h

\* n clock pulses: CLOCK raised, then lowered, once per bit
RECURSIVE ClockPulses(_, _)
ClockPulses(h, n) ==
    IF n = 0 THEN h
    ELSE ClockPulses([[h EXCEPT !.clock = 1] EXCEPT !.clock = 0], n - 1)

\* six clock pulses carrying the opcode
send_command(m, cmd) ==
    [Emit(m, cmd) EXCEPT !.hw = ClockPulses(ChipExec(@, cmd), 6)]

send_simple_command(m, cmd) == send_command(m, cmd)

\* the levels the data phase puts on DATA, in clock order: data & 1, then
\* data >>= 1, sixteen times
RECURSIVE WriteBits(_, _)
WriteBits(data, bit) ==
    IF bit < 16
    THEN << data % 2 >> \o WriteBits(data \div 2, bit + 1)
    ELSE <<>>

\* the opcode, then sixteen more clock pulses carrying data
send_write_command(m, cmd, data) ==
    [send_command(m, cmd) EXCEPT !.hw = ClockPulses(@, Len(WriteBits(data, 0)))]

\* (variant: the sampled bit enters at the least significant end)
RECURSIVE RecvBits_ShiftLeft(_, _, _)
RecvBits_ShiftLeft(bits, bit, data) ==
    IF bit < 16
    THEN RecvBits_ShiftLeft(bits, bit + 1, ((data * 2) % 65536) + bits[bit + 1])
    ELSE data

\* the read loop: shift right, then set bit 15 when the DATA pin is high
RECURSIVE RecvBits(_, _, _)
RecvBits(bits, bit, data) ==
    IF bit < 16
    THEN RecvBits(bits, bit + 1,
                  IF bits[bit + 1] = 1 THEN ((data \div 2) % 32768) + 32768
                                       ELSE data \div 2)
    ELSE data

\* after the opcode: DATA turned to input, sixteen bits sampled from the
\* levels `bits` on the line, DATA turned back to output
ReadBits(m, bits) ==
    [m   |-> [m EXCEPT !.hw = [ClockPulses([@ EXCEPT !.dataDir = "in"], 16)
                                  EXCEPT !.dataDir = "out"]],
     val |-> RecvBits(bits, 0, 0)]

\* a read answered by the chip in the socket
ReadPhase(m, d, cmd) == ReadBits(m, WireBits(ChipWord(m.hw, d, cmd)))

\* returns the machine afterwards and the 16-bit value read
send_read_command(m, d, cmd) == ReadPhase(send_command(m, cmd), d, cmd)

-----------------------------------------------------------------------------
(* Program-counter state machine *)

InData(p, addr)   == addr >= p.dataStart /\ addr <= p.dataEnd
InConfig(p, addr) == addr >= p.configStart /\ addr <= p.configEnd

\* the region an address is classified into: Data, then Config, else Program
Region(p, addr) ==
    IF InData(p, addr) THEN "Data"
    ELSE IF InConfig(p, addr) THEN "Config"
    ELSE "Program"

\* (variant: the region base is not subtracted)
Offset_Flat(p, addr) == addr

\* the region-relative offset of a flat address
Offset(p, addr) ==
    IF InData(p, addr) THEN addr - p.dataStart
    ELSE IF InConfig(p, addr) THEN addr - p.configStart
    ELSE addr

\* (variant: the backward test left out)
NeedResetProgram_StateOnly(m, off) == m.state # STATE_PROGRAM

\* (variant: an address equal to the counter counts as further back)
NeedResetProgram_NotAhead(m, off) == m.state # STATE_PROGRAM \/ off <= m.pc

\* the test guarding the reset in the Data and Program branches
NeedResetProgram(m, off) == m.state # STATE_PROGRAM \/ off < m.pc

\* (variant: never reset inside config memory)
NeedResetConfig_Never(m, off) == FALSE

\* the test guarding the reset in the third Config branch
NeedResetConfig(m, off) == off < m.pc

\* (variant: the backward reset does not send load-config again)
EnterConfig_NoReload(m, off) ==
    IF m.state = STATE_IDLE THEN
        [send_write_command(enter_program_mode(m), CMD_LOAD_CONFIG, 0)
            EXCEPT !.state = STATE_CONFIG]
    ELSE IF m.state = STATE_PROGRAM THEN
        [send_write_command(m, CMD_LOAD_CONFIG, 0)
            EXCEPT !.state = STATE_CONFIG, !.pc = 0]
    ELSE IF NeedResetConfig(m, off) THEN
        [enter_program_mode(exit_program_mode(m)) EXCEPT !.state = STATE_CONFIG]
    ELSE m

\* (variant: the switch from program memory keeps the tracked counter)
EnterConfig_KeepCounter(m, off) ==
    IF m.state = STATE_IDLE THEN
        [send_write_command(enter_program_mode(m), CMD_LOAD_CONFIG, 0)
            EXCEPT !.state = STATE_CONFIG]
    ELSE IF m.state = STATE_PROGRAM THEN
        [send_write_command(m, CMD_LOAD_CONFIG, 0) EXCEPT !.state = STATE_CONFIG]
    ELSE IF NeedResetConfig(m, off) THEN
        [send_write_command(enter_program_mode(exit_program_mode(m)),
                            CMD_LOAD_CONFIG, 0)
            EXCEPT !.state = STATE_CONFIG]
    ELSE m

\* the Config branch of _set_program_counter
EnterConfig(m, off) ==
    IF m.state = STATE_IDLE THEN
        [send_write_command(enter_program_mode(m), CMD_LOAD_CONFIG, 0)
            EXCEPT !.state = STATE_CONFIG]
    ELSE IF m.state = STATE_PROGRAM THEN
        [send_write_command(m, CMD_LOAD_CONFIG, 0)
            EXCEPT !.state = STATE_CONFIG, !.pc = 0]
    ELSE IF NeedResetConfig(m, off) THEN
        [send_write_command(enter_program_mode(exit_program_mode(m)),
                            CMD_LOAD_CONFIG, 0)
            EXCEPT !.state = STATE_CONFIG]
    ELSE m

\* (variant: the counter is assigned the target after a single increment)
IncrementTo_Assign(m, off) ==
    IF m.pc < off
    THEN [send_simple_command(m, CMD_INCREMENT_ADDRESS) EXCEPT !.pc = off]
    ELSE m

\* while (_program_counter < addr) { increment address; ++_program_counter; }
\* one log entry and one chip increment per iteration
IncrementTo(m, off) ==
    LET n == IF m.pc < off THEN off - m.pc ELSE 0
    IN IF n = 0 THEN m
       ELSE [m EXCEPT !.pc = @ + n,
                      !.hw = [@ EXCEPT !.cpc = IF m.hw.vdd THEN @ + n ELSE @,
                                       !.clock = 0],
                      !.log = @ \o [i \in 1..n |-> CMD_INCREMENT_ADDRESS],
                      !.at = @ \o [i \in 1..n |-> NowAt(m, i - 1)]]

set_program_counter(m, p, addr) ==
    LET off == Offset(p, addr)
        m1  == IF InData(p, addr) THEN
                   IF NeedResetProgram(m, off)
                   THEN enter_program_mode(exit_program_mode(m)) ELSE m
               ELSE IF InConfig(p, addr) THEN EnterConfig(m, off)
               ELSE
                   IF NeedResetProgram(m, off)
                   THEN enter_program_mode(exit_program_mode(m)) ELSE m
    IN IncrementTo(m1, off)

\* (raw >> 1) & mask, for the masks 0x00FF and 0x3FFF
StripFraming(r, mask) == [m |-> r.m, val |-> (r.val \div 2) % (mask + 1)]

\* the start and stop bits stripped from the raw value
read_word(m, p, d, addr) ==
    IF InData(p, addr)
    THEN StripFraming(send_read_command(set_program_counter(m, p, addr), d,
                                        CMD_READ_DATA_MEMORY), 255)
    ELSE StripFraming(send_read_command(set_program_counter(m, p, addr), d,
                                        CMD_READ_PROGRAM_MEMORY), 16383)

\* (variant: the switch from program memory keeps the counter)
ReadConfigEnter_KeepCounter(m, addr) ==
    IF m.state = STATE_IDLE THEN
        [send_write_command(enter_program_mode(m), CMD_LOAD_CONFIG, 0)
            EXCEPT !.state = STATE_CONFIG]
    ELSE IF m.state = STATE_PROGRAM THEN
        [send_write_command(m, CMD_LOAD_CONFIG, 0) EXCEPT !.state = STATE_CONFIG]
    ELSE IF addr < m.pc THEN
        [send_write_command(enter_program_mode(exit_program_mode(m)),
                            CMD_LOAD_CONFIG, 0)
            EXCEPT !.state = STATE_CONFIG]
    ELSE m

\* the branching at the head of _read_config_word
ReadConfigEnter(m, addr) ==
    IF m.state = STATE_IDLE THEN
        [send_write_command(enter_program_mode(m), CMD_LOAD_CONFIG, 0)
            EXCEPT !.state = STATE_CONFIG]
    ELSE IF m.state = STATE_PROGRAM THEN
        [send_write_command(m, CMD_LOAD_CONFIG, 0)
            EXCEPT !.state = STATE_CONFIG, !.pc = 0]
    ELSE IF addr < m.pc THEN
        [send_write_command(enter_program_mode(exit_program_mode(m)),
                            CMD_LOAD_CONFIG, 0)
            EXCEPT !.state = STATE_CONFIG]
    ELSE m

\* the increment loop of _read_config_word
IncrementConfigTo(m, addr) ==
    LET n == IF m.pc < addr THEN addr - m.pc ELSE 0
    IN IF n = 0 THEN m
       ELSE [m EXCEPT !.pc = @ + n,
                      !.hw = [@ EXCEPT !.cpc = IF m.hw.vdd THEN @ + n ELSE @,
                                       !.clock = 0],
                      !.log = @ \o [i \in 1..n |-> CMD_INCREMENT_ADDRESS],
                      !.at = @ \o [i \in 1..n |-> NowAt(m, i - 1)]]

\* relative, non-flat addressing into config memory
read_config_word(m, d, addr) ==
    StripFraming(send_read_command(IncrementConfigTo(ReadConfigEnter(m, addr), addr),
                                   d, CMD_READ_PROGRAM_MEMORY), 16383)

-----------------------------------------------------------------------------
(* Device detection *)

\* bitwise OR of two non-negative integers
RECURSIVE BitOr(_, _)
BitOr(a, b) ==
    IF a = 0 THEN b
    ELSE IF b = 0 THEN a
    ELSE (IF a % 2 = 1 \/ b % 2 = 1 THEN 1 ELSE 0) + 2 * BitOr(a \div 2, b \div 2)

\* deviceId & 0xFFE0
MaskDeviceId(deviceId) == (deviceId \div 32) * 32

\* number of Program words examined by the fallback scan: addr < 16
ScanLimit == 16

\* while (!word && addr < 16) { word |= _read_word(addr); ++addr; }
\* (seen collects the words read, in order)
RECURSIVE ScanProgram(_, _, _, _, _, _)
RECURSIVE ScanBody(_, _, _, _, _, _)

\* (variant: the scan does not stop at a nonzero word)
ScanProgram_NoStop(m, p, d, word, addr, seen) ==
    IF word >= 0 /\ addr < ScanLimit
    THEN ScanBody(read_word(m, p, d, addr), p, d, word, addr, seen)
    ELSE [m |-> m, word |-> word, seen |-> seen]

ScanProgram(m, p, d, word, addr, seen) ==
    IF word = 0 /\ addr < ScanLimit
    THEN ScanBody(read_word(m, p, d, addr), p, d, word, addr, seen)
    ELSE [m |-> m, word |-> word, seen |-> seen]

\* the loop body, r being what _read_word(addr) returned
ScanBody(r, p, d, word, addr, seen) ==
    ScanProgram(r.m, p, d, BitOr(word, r.val), addr + 1, Append(seen, r.val))

\* does table entry e match the device id
EntryMatches(e, deviceId) == e.deviceId = MaskDeviceId(deviceId)

\* (variant: the loop does not stop at the first match)
RECURSIVE FindDevice_LastMatch(_, _, _)
FindDevice_LastMatch(tbl, deviceId, index) ==
    IF index >= Len(tbl) THEN -1
    ELSE LET later == FindDevice_LastMatch(tbl, deviceId, index + 1)
         IN IF later >= 0 THEN later
            ELSE IF EntryMatches(tbl[index + 1], deviceId) THEN index
            ELSE -1

\* the table loop: the 0-based index of the first matching entry, or -1 when
\* the terminating entry (NULL name) is reached first
RECURSIVE FindDevice(_, _, _)
FindDevice(tbl, deviceId, index) ==
    IF index >= Len(tbl) THEN -1
    ELSE IF EntryMatches(tbl[index + 1], deviceId) THEN index
    ELSE FindDevice(tbl, deviceId, index + 1)

\* (variant: the data base is copied from the entry's config base)
init_device_DataAtConfig(e) ==
    [programEnd    |-> e.programSize - 1,
     configStart   |-> e.configStart,
     configEnd     |-> e.configStart + e.configSize - 1,
     dataStart     |-> e.configStart,
     dataEnd       |-> e.configStart + e.dataSize - 1,
     reservedStart |-> (e.programSize - 1) - e.reservedWords + 1,
     reservedEnd   |-> e.programSize - 1,
     configSave    |-> e.configSave,
     progFlashType |-> e.progFlashType,
     dataFlashType |-> e.dataFlashType]

\* the profile _init_device derives from a table entry
init_device(e) ==
    [programEnd    |-> e.programSize - 1,
     configStart   |-> e.configStart,
     configEnd     |-> e.configStart + e.configSize - 1,
     dataStart     |-> e.dataStart,
     dataEnd       |-> e.dataStart + e.dataSize - 1,
     reservedStart |-> (e.programSize - 1) - e.reservedWords + 1,
     reservedEnd   |-> e.programSize - 1,
     configSave    |-> e.configSave,
     progFlashType |-> e.progFlashType,
     dataFlashType |-> e.dataFlashType]

\* os_strlen over the names the tables hold
os_strlen(name) ==
    CASE name = "pic12f629"  -> 9
      [] name = "pic16f628a" -> 10
      [] name = "pic12f629b" -> 10
      [] name = "pic16f84"   -> 8
      [] OTHER               -> 0

\* one call of sp_tcpserver_response
Response(status, body, len) == [status |-> status, body |-> body, len |-> len]
EV_RESPONSE == "response"

\* values a caller can observe from a return statement without a value
GARBAGE == "garbage"
IndeterminateReturn == {SP_OK, SP_ERR_DEVICE_NOT_DETECTED, GARBAGE}

\* (variant: the early return leaves the device in program mode)
DetectAllZero_NoCleanup(m, p) ==
    [m |-> m, profile |-> p, resp |-> <<>>,
     rets |-> IndeterminateReturn, index |-> -1]

\* the early return of the all-zero path
DetectAllZero(m, p) ==
    [m |-> exit_program_mode(m), profile |-> p, resp |-> <<>>,
     rets |-> IndeterminateReturn, index |-> -1]

\* (variant: a failed lookup is reported before the device is powered down)
DetectFinish_ReportFirst(m, tbl, index) ==
    IF index >= 0
    THEN [m |-> exit_program_mode(Emit(m, EV_RESPONSE)),
          profile |-> init_device(tbl[index + 1]),
          resp |-> << Response(SP_OK, tbl[index + 1].name,
                               os_strlen(tbl[index + 1].name)) >>,
          rets |-> {SP_OK}, index |-> index]
    ELSE [m |-> exit_program_mode(Emit(m, EV_RESPONSE)),
          profile |-> DefaultProfile,
          resp |-> << Response(SP_ERR_DEVICE_NOT_DETECTED, "", 0) >>,
          rets |-> {SP_ERR_DEVICE_NOT_DETECTED}, index |-> index]

\* everything after the table loop has ended with `index`
DetectFinish(m, tbl, index) ==
    IF index >= 0
    THEN [m |-> exit_program_mode(Emit(m, EV_RESPONSE)),
          profile |-> init_device(tbl[index + 1]),
          resp |-> << Response(SP_OK, tbl[index + 1].name,
                               os_strlen(tbl[index + 1].name)) >>,
          rets |-> {SP_OK}, index |-> index]
    ELSE [m |-> Emit(exit_program_mode(m), EV_RESPONSE),
          profile |-> DefaultProfile,
          resp |-> << Response(SP_ERR_DEVICE_NOT_DETECTED, "", 0) >>,
          rets |-> {SP_ERR_DEVICE_NOT_DETECTED}, index |-> index]

\* the table lookup and everything after it
DetectLookup(m, p, tbl, deviceId) ==
    DetectFinish(m, tbl, FindDevice(tbl, deviceId, 0))

\* is the device id one of the two "no identifier" readings
NoDeviceId(deviceId) == deviceId = 0 \/ deviceId = 16383

\* the six relative reads, in order; vals collects the words read
RECURSIVE ReadConfigWords(_, _, _, _)
RECURSIVE ReadConfigNext(_, _, _, _)
ReadConfigWords(m, d, addrs, vals) ==
    IF addrs = <<>> THEN [m |-> m, vals |-> vals]
    ELSE ReadConfigNext(read_config_word(m, d, Head(addrs)), d, Tail(addrs), vals)

ReadConfigNext(r, d, addrs, vals) ==
    ReadConfigWords(r.m, d, addrs, Append(vals, r.val))

\* the words a detection read from the chip
Observed(vals, seen) ==
    [userid |-> <<vals[1], vals[2], vals[3], vals[4]>>,
     deviceId |-> vals[5], configWord |-> vals[6], scan |-> seen]

\* after the fallback scan sc
DetectAfterScan(sc, vals, p, tbl) ==
    [obs |-> Observed(vals, sc.seen),
     res |-> IF sc.word = 0 THEN DetectAllZero(sc.m, p)
             ELSE DetectLookup(sc.m, p, tbl, 0)]

\* after the six config reads c
DetectAfterConfig(c, p, tbl, d) ==
    IF NoDeviceId(c.vals[5])
    THEN DetectAfterScan(
             ScanProgram(c.m, p, d,
                         BitOr(c.vals[1], BitOr(c.vals[2], BitOr(c.vals[3],
                               BitOr(c.vals[4], c.vals[6])))),
                         0, <<>>),
             c.vals, p, tbl)
    ELSE [obs |-> Observed(c.vals, <<>>),
          res |-> DetectLookup(c.m, p, tbl, c.vals[5])]

pic_command_detect_device(m, p, tbl, d) ==
    DetectAfterConfig(
        ReadConfigWords(exit_program_mode(m), d,
                        <<DEV_USERID0, DEV_USERID1, DEV_USERID2, DEV_USERID3,
                          DEV_ID, DEV_CONFIG_WORD>>, <<>>),
        p, tbl, d)

-----------------------------------------------------------------------------
(* The session and its history *)

Session == Machine(state, program_counter, hw, <<>>)

\* the words read by a detection; nothing read yet
NoObs == [userid |-> <<>>, deviceId |-> -1, configWord |-> -1, scan |-> <<>>]

NoOp == [op |-> "none", arg |-> <<>>, st0 |-> STATE_IDLE, pc0 |-> 0,
         hw0 |-> HwInitial, ld0 |-> FALSE, dev0 |-> NoChip,
         reg0 |-> "None", prof0 |-> DefaultProfile, log |-> <<>>, at |-> <<>>,
         resp |-> <<>>, ret |-> "none", val |-> 0, obs |-> NoObs]

\* has a load-config command been sent after the most recent call of
\* _enter_program_mode, once `log` has run from a point where the answer was ld
LoadedAfter(ld, log) ==
    LET marks == {i \in DOMAIN log : log[i] \in {EV_ENTER, EV_ENTER_NOOP, CMD_LOAD_CONFIG}}
    IN IF marks = {} THEN ld
       ELSE log[CHOOSE i \in marks : \A j \in marks : j <= i] = CMD_LOAD_CONFIG

\* what is remembered of the operation before the last one: a single-word
\* read with its address, whether it started idle and the word it returned
Summary(l) ==
    IF l.op = "read_word"
    THEN [op |-> l.op, arg |-> l.arg, idle0 |-> (l.st0 = STATE_IDLE), val |-> l.val]
    ELSE [op |-> "other", arg |-> <<>>, idle0 |-> FALSE, val |-> 0]

\* the record of an operation starting in the current state
Started(op, arg) ==
    [op |-> op, arg |-> arg, st0 |-> state, pc0 |-> program_counter,
     hw0 |-> hw, ld0 |-> LoadedAfter(last.ld0, last.log), dev0 |-> dev,
     reg0 |-> region, prof0 |-> profile, log |-> <<>>, at |-> <<>>,
     resp |-> <<>>, ret |-> "none", val |-> 0, obs |-> NoObs]

RdIdle == [pcl |-> "idle", start |-> 0, end |-> 0, count |-> 0, off |-> -1]

Init ==
    /\ state = STATE_IDLE
    /\ program_counter = 0
    /\ profile = DefaultProfile
    /\ devices = TableIdentified
    /\ dev = NoChip
    /\ hw = HwInitial
    /\ region = "None"
    /\ last = NoOp
    /\ prev = Summary(NoOp)
    /\ rd = RdIdle

\* the session after machine m
Install(m) ==
    /\ state' = m.state
    /\ program_counter' = m.pc
    /\ hw' = m.hw

-----------------------------------------------------------------------------
(* Operations *)

\* flat addresses requested by a single-word read
ProgAddrs   == {0, 5, MaxProgAddr}
GapAddrs    == {DefaultProgramEnd + 1}
ConfigAddrs == {DefaultConfigStart, DefaultConfigStart + 1, DefaultConfigEnd}
DataAddrs   == {DefaultDataStart + k : k \in 0..MaxDataOff}
Addrs       == ProgAddrs \cup GapAddrs \cup ConfigAddrs \cup DataAddrs

ConfigOffsets == {DEV_USERID0, DEV_CONFIG_WORD}

\* the session and the history after a single-word read returned r
Returned(r, op, arg) ==
    /\ Install(r.m)
    /\ last' = [Started(op, arg) EXCEPT !.log = r.m.log, !.at = r.m.at, !.val = r.val]
    /\ prev' = Summary(last)

ReadWord(addr) ==
    /\ rd.pcl = "idle"
    /\ Returned(read_word(Session, profile, dev, addr), "read_word", <<addr>>)
    /\ region' = Region(profile, addr)
    /\ UNCHANGED <<profile, devices, dev, rd>>

ReadConfigWord(k) ==
    /\ rd.pcl = "idle"
    /\ Returned(read_config_word(Session, dev, k), "read_config_word", <<k>>)
    /\ region' = "Config"
    /\ UNCHANGED <<profile, devices, dev, rd>>

\* the session and the history after a detection returned r, having read obs
Detected(r, obs) ==
    /\ Install(r.m)
    /\ profile' = r.profile
    /\ \E ret \in r.rets :
          last' = [Started("detect_device", <<>>) EXCEPT
                      !.log = r.m.log, !.at = r.m.at, !.resp = r.resp, !.ret = ret,
                      !.val = r.index, !.obs = obs]

\* the same for the pair d of the observed words and the result
DetectReturned(d) == Detected(d.res, d.obs)

DetectDevice ==
    /\ rd.pcl = "idle"
    /\ DetectReturned(pic_command_detect_device(Session, profile, devices, dev))
    /\ region' = "None"
    /\ prev' = Summary(last)
    /\ UNCHANGED <<devices, dev, rd>>

\* the operator changes the chip in the socket while the socket is unpowered
InsertDevice(d) ==
    /\ rd.pcl = "idle"
    /\ state = STATE_IDLE
    /\ d # dev
    /\ dev' = d
    /\ UNCHANGED <<state, program_counter, profile, devices, hw, region, last, prev, rd>>

-----------------------------------------------------------------------------
(* Streaming read: pic_command_read, one loop iteration per step *)

\* words per chunk: the test count == 256
ChunkWords == 256
\* bytes allocated for the chunk buffer: os_zalloc(1024)
BufferBytes == 1024

\* the values of a range address: start and end are unsigned and ++start
\* wraps around
AddrSpace == 2 ^ AddrBits
AddrMax   == AddrSpace - 1

\* iterations of the read loop followed in one range read
MaxReads == ChunkWords * (MaxChunks + 1) + 8

\* short ranges, read next to the single-word operations
ShortRanges == {<<1, 2>>}

\* ranges around the chunk boundaries
LongRanges ==
    {<<0, 0>>, <<3, 2>>}
    \cup {<<0, ChunkWords * c - 2>> : c \in 1..MaxChunks}
    \cup {<<0, ChunkWords * c - 1>> : c \in 1..MaxChunks}
    \cup {<<5, ChunkWords * c + 5>> : c \in 1..MaxChunks}

\* ranges at the top of the address space
WrapRanges ==
    {<<AddrMax - 1, AddrMax - 1>>, <<AddrMax - 1, AddrMax>>, <<AddrMax, AddrMax>>}

RangeStart(ranges) ==
    /\ rd.pcl = "idle"
    /\ \E se \in ranges :
          /\ rd' = [pcl |-> "loop", start |-> se[1], end |-> se[2],
                    count |-> 0, off |-> -1]
          /\ last' = Started("read_range", se)
    /\ prev' = Summary(last)
    /\ UNCHANGED <<state, program_counter, profile, devices, dev, hw, region>>

\* one iteration of while (start <= end).  A store past the end of the
\* buffer is undefined: the run either carries on or faults there.
\* the loop body, r being what _read_word(start) returned; the history keeps
\* the log of the latest iteration and the state that iteration started in
RangeBody(r, off, count) ==
    /\ Install(r.m)
    /\ last' = [last EXCEPT
                   !.st0 = state, !.pc0 = program_counter, !.hw0 = hw,
                   !.ld0 = LoadedAfter(@, last.log),
                   !.log = r.m.log, !.at = r.m.at, !.val = r.val,
                   !.resp = IF count = ChunkWords
                            THEN Append(@, Response(SP_STATUS_READ_MORE,
                                                    "buffer", BufferBytes))
                            ELSE @]
    /\ \E pcl \in (IF off + 4 > BufferBytes THEN {"loop", "fault"}
                                           ELSE {"loop"}) :
          rd' = [rd EXCEPT !.pcl = pcl, !.start = (@ + 1) % AddrSpace,
                           !.count = count, !.off = off]

RangeStep ==
    /\ rd.pcl = "loop"
    /\ rd.start <= rd.end
    /\ rd.count < MaxReads
    /\ RangeBody(read_word(Session, profile, dev, rd.start),
                 rd.count * 4, rd.count + 1)
    /\ region' = Region(profile, rd.start)
    /\ UNCHANGED <<profile, devices, dev, prev>>

RangeDone ==
    /\ rd.pcl = "loop"
    /\ rd.start > rd.end
    /\ last' = [last EXCEPT
                   !.resp = Append(@, Response(SP_STATUS_READ_DONE, "", 0)),
                   !.ret = SP_OK]
    /\ rd' = [rd EXCEPT !.pcl = "idle"]
    /\ UNCHANGED <<state, program_counter, profile, devices, dev, hw, region, prev>>

-----------------------------------------------------------------------------
(* The bit codec on a looped-back data line *)

\* _send_read_command while the DATA line carries the levels that the data
\* phase of _send_write_command presents for v, one per clock pulse
LineLoopback ==
    /\ rd.pcl = "idle"
    /\ state # STATE_IDLE
    /\ last.op # "send_read_command"
    /\ \E v \in 0..MaxWord :
          Returned(ReadBits(send_command(Session, CMD_READ_PROGRAM_MEMORY),
                            WriteBits(v, 0)),
                   "send_read_command", <<v>>)
    /\ UNCHANGED <<profile, devices, dev, region, rd>>

-----------------------------------------------------------------------------
(* Specifications *)

\* chips tried next to the single-word operations
ChipsBasic == {NoChip, Chip(0, 3969, 16383, 0)}

Next ==
    \/ \E addr \in Addrs : ReadWord(addr)
    \/ \E k \in ConfigOffsets : ReadConfigWord(k)
    \/ DetectDevice
    \/ \E d \in ChipsBasic : InsertDevice(d)
    \/ RangeStart(ShortRanges)
    \/ RangeStep
    \/ RangeDone

Spec == Init /\ [][Next]_vars

\* detection on its own: every chip against every table, started from the
\* states a few single-word reads leave behind
InitDetect ==
    /\ state = STATE_IDLE
    /\ program_counter = 0
    /\ profile = DefaultProfile
    /\ devices \in Tables
    /\ dev = NoChip
    /\ hw = HwInitial
    /\ region = "None"
    /\ last = NoOp
    /\ prev = Summary(NoOp)
    /\ rd = RdIdle

NextDetect ==
    \/ DetectDevice
    \/ \E d \in Chips : InsertDevice(d)
    \/ \E addr \in {5, DefaultConfigStart} : ReadWord(addr)

SpecDetect == InitDetect /\ [][NextDetect]_vars

\* the bit codec: reads that bring the device into program and config
\* memory, and the read command on a looped-back line
NextCodec ==
    \/ \E addr \in {0, DefaultConfigStart + 1} : ReadWord(addr)
    \/ LineLoopback

SpecCodec == Init /\ [][NextCodec]_vars

\* the streaming read on its own, over the long ranges
NextRange ==
    \/ DetectDevice
    \/ \E d \in ChipsBasic : InsertDevice(d)
    \/ RangeStart(LongRanges)
    \/ RangeStep
    \/ RangeDone

SpecRange == Init /\ [][NextRange]_vars

\* the streaming read at the top of the address space
NextWrap ==
    \/ RangeStart(WrapRanges)
    \/ RangeStep
    \/ RangeDone

SpecWrap == Init /\ [][NextWrap]_vars

-----------------------------------------------------------------------------
(* Properties *)

\* how often an event of set S occurs in a log
Count(log, S) == Cardinality({i \in DOMAIN log : log[i] \in S})

ExitCalls  == {EV_EXIT, EV_EXIT_NOOP}
EnterCalls == {EV_ENTER, EV_ENTER_NOOP}

\* exit_program_mode then enter_program_mode, with no increment before them
ResetBeforeIncrements(log) ==
    \E i \in 1..(Len(log) - 1) :
        /\ log[i] \in ExitCalls
        /\ log[i + 1] = EV_ENTER
        /\ \A j \in 1..(i - 1) : log[j] # CMD_INCREMENT_ADDRESS

NoResetCalls(log) == Count(log, ExitCalls \cup EnterCalls) = 0

\* target of the last single-word read, classified as it was when the read ran
LastAddr   == last.arg[1]
LastRegion == Region(last.prof0, LastAddr)
LastOffset == Offset(last.prof0, LastAddr)
LastTargetState == IF LastRegion = "Config" THEN STATE_CONFIG ELSE STATE_PROGRAM

\* C1 as claimed: a read whose target lies in another region than the one
\* entered, or further back in the same region, resets before any increment.
C1_ResetOnAnyRegionChange ==
    (last.op = "read_word"
       /\ \/ (last.reg0 # "None" /\ LastRegion # last.reg0)
          \/ (LastRegion = last.reg0 /\ LastOffset < last.pc0))
    => ResetBeforeIncrements(last.log)

\* C1 amended: set_program_counter calls exit_program_mode then
\* enter_program_mode before any increment whenever the target is a Program or
\* Data address and the state is not InProgram, or the state already is the
\* target's state (InProgram for Program and Data, InConfig for Config) and the
\* target offset is below the counter.  From InProgram a Config target gets a
\* load-config command and no reset, and a Program or Data target at an offset
\* not below the counter gets no reset either, also when it crosses between
\* Program and Data.
C1_ResetRule ==
    last.op = "read_word" =>
       /\ ((LastTargetState = STATE_PROGRAM /\ last.st0 # STATE_PROGRAM)
             \/ (last.st0 = LastTargetState /\ LastOffset < last.pc0))
          => ResetBeforeIncrements(last.log)
       /\ (LastRegion = "Config" /\ last.st0 = STATE_PROGRAM)
          => (NoResetCalls(last.log) /\ last.log[1] = CMD_LOAD_CONFIG)
       /\ (LastRegion # "Config" /\ last.st0 = STATE_PROGRAM
             /\ LastOffset >= last.pc0)
          => NoResetCalls(last.log)

\* a backward read inside one region that reset and then stepped forward
C1_Witness ==
    /\ last.op = "read_word"
    /\ last.st0 = STATE_PROGRAM
    /\ LastRegion = last.reg0
    /\ LastOffset < last.pc0
    /\ ResetBeforeIncrements(last.log)
    /\ Count(last.log, {CMD_INCREMENT_ADDRESS}) = LastOffset
    /\ LastOffset > 0

\* words of a finished range read
RangeFinished == last.op = "read_range" /\ rd.pcl = "idle" /\ last.ret = SP_OK
RangeWords    == last.arg[2] - last.arg[1] + 1
MoreResponses == {i \in DOMAIN last.resp : last.resp[i].status = SP_STATUS_READ_MORE}
DoneResponses == {i \in DOMAIN last.resp : last.resp[i].status = SP_STATUS_READ_DONE}

\* C2: a finished read of N words (start <= end) has emitted N \div 256
\* 'more data' responses of 1024 bytes each and then one empty 'done' response.
C2_ChunkCount ==
    (RangeFinished /\ last.arg[1] <= last.arg[2]) =>
       /\ Cardinality(MoreResponses) = RangeWords \div ChunkWords
       /\ \A i \in MoreResponses : last.resp[i].len = BufferBytes
       /\ DoneResponses = {Len(last.resp)}
       /\ last.resp[Len(last.resp)].len = 0

\* C3: every word of a range read is stored inside the 1024-byte buffer, the
\* k-th word at byte offset 4 * ((k - 1) mod 256).
C3_WriteInsideBuffer ==
    (last.op = "read_range" /\ rd.off >= 0) =>
       /\ rd.off \in 0..(BufferBytes - 4)
       /\ rd.off = 4 * ((rd.start - last.arg[1] - 1) % ChunkWords)

\* C4: once a range read has emitted 'done', the programmer is Idle with
\* counter 0 and the device powered down.
C4_IdleAfterDone ==
    RangeFinished =>
       (state = STATE_IDLE /\ program_counter = 0 /\ ~hw.vdd /\ ~hw.vpp)

\* the detection that ran last took the all-zero path
DetectedAllZero ==
    /\ last.op = "detect_device"
    /\ NoDeviceId(last.obs.deviceId)
    /\ \A i \in 1..4 : last.obs.userid[i] = 0
    /\ last.obs.configWord = 0
    /\ Len(last.obs.scan) = ScanLimit
    /\ \A i \in DOMAIN last.obs.scan : last.obs.scan[i] = 0

\* C5: on the all-zero path detect_device emits exactly one response, a
\* DeviceNotDetected one, ends Idle and returns DeviceNotDetected.
C5_AllZeroReported ==
    DetectedAllZero =>
       /\ last.resp = << Response(SP_ERR_DEVICE_NOT_DETECTED, "", 0) >>
       /\ state = STATE_IDLE
       /\ last.ret = SP_ERR_DEVICE_NOT_DETECTED

\* C6: after a detection that matched no table entry the active profile is
\* the default profile, whatever it was before.
C6_DefaultAfterNoMatch ==
    (last.op = "detect_device" /\ last.val < 0) =>
       /\ profile.programEnd = 2047
       /\ profile.configStart = 8192 /\ profile.configEnd = 8199
       /\ profile.dataStart = 8448 /\ profile.dataEnd = 8575
       /\ profile.reservedStart = 2048 /\ profile.reservedEnd = 2047
       /\ profile.configSave = 0

\* the no-op that precedes a reset inside one region: an earlier read from
\* Idle, then a read in the same region
TwoReadsFromIdle ==
    /\ prev.op = "read_word"
    /\ prev.idle0
    /\ last.op = "read_word"
    /\ Region(last.prof0, prev.arg[1]) = LastRegion

\* C7: from Idle, reading a1 then a2 > a1 in the same region calls neither
\* exit_program_mode nor enter_program_mode in the second read; reading a2
\* then a1 < a2 makes exactly one exit/enter cycle in the second read, before
\* its read command.
C7_ForwardFreeBackwardResets ==
    TwoReadsFromIdle =>
       /\ prev.arg[1] < LastAddr => NoResetCalls(last.log)
       /\ prev.arg[1] > LastAddr =>
             /\ Count(last.log, ExitCalls) = 1
             /\ Count(last.log, EnterCalls) = 1
             /\ last.log[1] = EV_EXIT
             /\ last.log[2] = EV_ENTER
             /\ last.log[Len(last.log)] \in
                   {CMD_READ_PROGRAM_MEMORY, CMD_READ_DATA_MEMORY}
             /\ Len(last.log) > 2

\* offset 0x0010 of Program space, then flat address 0x0005
C7_Witness ==
    /\ TwoReadsFromIdle
    /\ prev.arg[1] = 16
    /\ LastAddr = 5
    /\ last.pc0 = 16
    /\ last.log[1] = EV_EXIT
    /\ program_counter = 5

\* the detection a freshly started programmer would run on the chip in the socket
FreshDetect ==
    pic_command_detect_device(Machine(STATE_IDLE, 0, HwInitial, <<>>),
                              DefaultProfile, devices, dev)

\* the last detection against a detection f that read the same words
SameAsDetection(f) ==
    f.obs = last.obs =>
       /\ last.ret \in f.res.rets
       /\ last.resp = f.res.resp
       /\ profile = f.res.profile

\* C8: a detection that read the same words as a detection started from the
\* initial session state has the same status, the same responses and the same
\* final profile.
C8_DetectionPureInWords ==
    last.op = "detect_device" => SameAsDetection(FreshDetect)

\* the detection that ran last met the legacy case: no device id, but one of
\* the other five config words set
DetectedLegacy ==
    /\ last.op = "detect_device"
    /\ NoDeviceId(last.obs.deviceId)
    /\ \/ \E i \in 1..4 : last.obs.userid[i] # 0
       \/ last.obs.configWord # 0

\* C9: in the legacy case no table entry is matched, whatever the table
\* holds: no entry is selected for loading and no success response is emitted.
C9_LegacyMatchesNothing ==
    DetectedLegacy =>
       /\ last.val < 0
       /\ \A i \in DOMAIN last.resp : last.resp[i].status # SP_OK
       /\ \A i \in DOMAIN devices :
             \A j \in DOMAIN last.resp : last.resp[j].body # devices[i].name

\* the detection that ran last read a device id that some table entry matches
DetectedKnownId ==
    /\ last.op = "detect_device"
    /\ ~NoDeviceId(last.obs.deviceId)
    /\ \E i \in DOMAIN devices :
          devices[i].deviceId = last.obs.deviceId - (last.obs.deviceId % 32)

\* the first entry, in table order, with the pattern of the id read
FirstMatch ==
    CHOOSE i \in DOMAIN devices :
        /\ devices[i].deviceId = last.obs.deviceId - (last.obs.deviceId % 32)
        /\ \A j \in 1..(i - 1) :
              devices[j].deviceId # last.obs.deviceId - (last.obs.deviceId % 32)

\* C10: with a valid device id, detect_device loads the first matching entry:
\* the bounds follow from its sizes, the reserved range is the last
\* reservedWords words of program space, one success response carries its
\* name (and nothing else is emitted), and the state ends Idle.
C10_FirstMatchLoaded ==
    DetectedKnownId =>
       LET e == devices[FirstMatch] IN
       /\ profile.programEnd = e.programSize - 1
       /\ profile.configStart = e.configStart
       /\ profile.configEnd = e.configStart + e.configSize - 1
       /\ profile.dataStart = e.dataStart
       /\ profile.dataEnd = e.dataStart + e.dataSize - 1
       /\ profile.reservedEnd = e.programSize - 1
       /\ profile.reservedEnd - profile.reservedStart + 1 = e.reservedWords
       /\ profile.configSave = e.configSave
       /\ Len(last.resp) = 1
       /\ last.resp[1].status = SP_OK
       /\ last.resp[1].body = e.name
       /\ last.ret = SP_OK
       /\ state = STATE_IDLE
       /\ program_counter = 0

\* id 0x0F81 against a table holding the pattern 0x0F80 twice: the first of
\* the two entries, with its one reserved word, is the one loaded
C10_Witness ==
    /\ DetectedKnownId
    /\ last.obs.deviceId = 3969
    /\ Cardinality({i \in DOMAIN devices : devices[i].deviceId = 3968}) = 2
    /\ last.resp[1].body = "pic12f629"
    /\ profile.programEnd = 1023
    /\ profile.reservedStart = 1023
    /\ state = STATE_IDLE

\* the detection that ran last read a device id that is neither 0x0000 nor
\* 0x3FFF and whose pattern (low 5 bits cleared) no table entry carries
DetectedUnknownId ==
    /\ last.op = "detect_device"
    /\ last.obs.deviceId \notin {0, 16383}
    /\ \A i \in DOMAIN devices :
          devices[i].deviceId # last.obs.deviceId - (last.obs.deviceId % 32)

\* positions of the responses in the log of the last operation
ResponseAt == {i \in DOMAIN last.log : last.log[i] = EV_RESPONSE}

\* C11: with an id that is present but in no table entry, detect_device
\* resets the profile to the default, forces the state to Idle and only then
\* emits exactly one DeviceNotDetected response; no success response is
\* emitted in that run.
C11_UnknownIdReported ==
    DetectedUnknownId =>
       /\ profile.programEnd = 2047
       /\ profile.configStart = 8192 /\ profile.configEnd = 8199
       /\ profile.dataStart = 8448 /\ profile.dataEnd = 8575
       /\ profile.reservedStart = 2048 /\ profile.reservedEnd = 2047
       /\ profile.configSave = 0
       /\ profile.progFlashType = "FLASH4" /\ profile.dataFlashType = "EEPROM"
       /\ state = STATE_IDLE
       /\ Len(last.resp) = 1
       /\ last.resp[1].status = SP_ERR_DEVICE_NOT_DETECTED
       /\ Cardinality(ResponseAt) = 1
       /\ \A i \in ResponseAt :
             /\ last.at[i].st = STATE_IDLE
             /\ \E j \in 1..(i - 1) : last.log[j] = EV_EXIT
       /\ last.ret = SP_ERR_DEVICE_NOT_DETECTED

\* id 0x1234 read while the profile of an earlier match is active and the
\* device is in program mode
C11_Witness ==
    /\ DetectedUnknownId
    /\ last.obs.deviceId = 4660
    /\ last.prof0.programEnd = 1023
    /\ last.st0 = STATE_PROGRAM
    /\ profile = DefaultProfile
    /\ last.resp[1].status = SP_ERR_DEVICE_NOT_DETECTED
    /\ state = STATE_IDLE

\* the commands clocked out to the device
DeviceCommands ==
    {CMD_LOAD_CONFIG, CMD_INCREMENT_ADDRESS, CMD_READ_PROGRAM_MEMORY, CMD_READ_DATA_MEMORY}

\* calls of exit_program_mode made after the last device command of a log
ExitsAfterCommands(log) ==
    {i \in DOMAIN log :
        /\ log[i] \in ExitCalls
        /\ \A j \in i..Len(log) : log[j] \notin DeviceCommands}

\* C12: on every path of detect_device, from every starting state and for
\* every chip, the cleanup call of exit_program_mode is made exactly once
\* after the last device command, and the run ends Idle with counter 0.
C12_CleanupExactlyOnce ==
    last.op = "detect_device" =>
       /\ Count(last.log, DeviceCommands) > 0
       /\ Cardinality(ExitsAfterCommands(last.log)) = 1
       /\ \A i \in ExitsAfterCommands(last.log) : last.log[i] = EV_EXIT
       /\ state = STATE_IDLE
       /\ program_counter = 0

\* the early return taken by a detection that started in config memory
C12_Witness ==
    /\ DetectedAllZero
    /\ last.st0 = STATE_CONFIG
    /\ last.resp = <<>>
    /\ last.log[Len(last.log)] = EV_EXIT
    /\ last.log[1] = EV_EXIT
    /\ state = STATE_IDLE
    /\ program_counter = 0

\* was a load-config command sent after the most recent call of
\* enter_program_mode, at the moment entry i of the last log is issued
LoadedBefore(i) == LoadedAfter(last.ld0, SubSeq(last.log, 1, i - 1))

\* C13: every increment-address command issued while the state is InConfig
\* is preceded, since the most recent enter_program_mode, by a load-config
\* command; and whenever an operation leaves the state InConfig a load-config
\* command has been sent since the most recent enter_program_mode.
C13_LoadConfigBeforeConfigIncrements ==
    /\ \A i \in DOMAIN last.log :
          (last.log[i] = CMD_INCREMENT_ADDRESS /\ last.at[i].st = STATE_CONFIG)
             => LoadedBefore(i)
    /\ state = STATE_CONFIG => LoadedAfter(last.ld0, last.log)

\* a backward read inside config memory: reset, load-config, one increment
C13_Witness ==
    /\ last.op = "read_word"
    /\ last.st0 = STATE_CONFIG
    /\ last.pc0 = 7
    /\ LastAddr = DefaultConfigStart + 1
    /\ last.log = <<EV_EXIT, EV_ENTER, CMD_LOAD_CONFIG, CMD_INCREMENT_ADDRESS,
                    CMD_READ_PROGRAM_MEMORY>>
    /\ last.at[4].st = STATE_CONFIG
    /\ state = STATE_CONFIG

\* the tracked counter right after entry i of the last log
CounterAfter(i) == IF i < Len(last.log) THEN last.at[i + 1].pc ELSE program_counter

\* is entry i of the last log a region entry: a call of enter_program_mode
\* or exit_program_mode that acted, or a load-config sent from InProgram
RegionEntry(i) ==
    \/ last.log[i] \in {EV_ENTER, EV_EXIT}
    \/ (last.log[i] = CMD_LOAD_CONFIG /\ last.at[i].st = STATE_PROGRAM)

\* C14: the tracked counter changes by +1 at each increment-address command,
\* becomes 0 at a region entry, and changes at no other point of a run.
C14_CounterStepsByIncrement ==
    /\ last.log # <<>> => (last.at[1].pc = last.pc0 /\ last.at[1].st = last.st0)
    /\ last.log = <<>> =>
          (last.op \in {"none", "read_range"} /\ program_counter = last.pc0)
    /\ \A i \in DOMAIN last.log :
          IF last.log[i] = CMD_INCREMENT_ADDRESS
          THEN CounterAfter(i) = last.at[i].pc + 1
          ELSE IF RegionEntry(i)
          THEN CounterAfter(i) = 0
          ELSE CounterAfter(i) = last.at[i].pc

\* a Program read issued from config memory at counter 7: the counter goes
\* to 0 at the reset and then to 5 in five increments
C14_Witness ==
    /\ last.op = "read_word"
    /\ last.st0 = STATE_CONFIG
    /\ last.pc0 = 7
    /\ LastAddr = 5
    /\ last.log[2] = EV_ENTER
    /\ CounterAfter(2) = 0
    /\ Count(last.log, {CMD_INCREMENT_ADDRESS}) = 5
    /\ program_counter = 5

\* the last two operations were single-word reads of the same flat address
RepeatedRead ==
    /\ prev.op = "read_word"
    /\ last.op = "read_word"
    /\ prev.arg = last.arg

\* C15: a read_word(a) issued immediately after a read_word(a) sends nothing
\* but its read opcode (no reset, no load-config, no increment), leaves state
\* and counter unchanged and returns the value the first read returned.
C15_RepeatedReadIsFree ==
    RepeatedRead =>
       /\ Len(last.log) = 1
       /\ last.log[1] = (IF LastAddr >= last.prof0.dataStart /\ LastAddr <= last.prof0.dataEnd
                         THEN CMD_READ_DATA_MEMORY ELSE CMD_READ_PROGRAM_MEMORY)
       /\ state = last.st0
       /\ program_counter = last.pc0
       /\ last.val = prev.val

\* Data offset 1 of a chip read twice: both reads return the byte 2
C15_Witness ==
    /\ RepeatedRead
    /\ LastAddr = DefaultDataStart + 1
    /\ prev.idle0
    /\ prev.val = 2
    /\ last.val = 2
    /\ last.log = <<CMD_READ_DATA_MEMORY>>
    /\ program_counter = 1

\* are the Program, Config and Data intervals of profile p pairwise disjoint
Disjoint(p) ==
    /\ (0 .. p.programEnd) \cap (p.configStart .. p.configEnd) = {}
    /\ (0 .. p.programEnd) \cap (p.dataStart .. p.dataEnd) = {}
    /\ (p.configStart .. p.configEnd) \cap (p.dataStart .. p.dataEnd) = {}

\* C16: in every reachable session state the Program, Config and Data
\* intervals of the active profile are pairwise disjoint, and so are those of
\* the profile a match of any entry of the table would load.
C16_RegionsDisjoint ==
    /\ Disjoint(profile)
    /\ \A i \in DOMAIN devices : Disjoint(init_device(devices[i]))

\* the profile of the first table entry, loaded by a match
C16_Witness ==
    /\ last.op = "detect_device"
    /\ last.val = 0
    /\ last.prof0 = DefaultProfile
    /\ profile # DefaultProfile
    /\ profile.programEnd = 1023
    /\ profile.configStart = 8192
    /\ profile.dataEnd = 8575
    /\ Disjoint(profile)

\* the flat address the last call of set_program_counter was given: the
\* argument of a single-word read, or the address of the latest iteration of
\* a range read
SetAddr ==
    IF last.op = "read_word" THEN last.arg[1]
    ELSE (rd.start + AddrSpace - 1) % AddrSpace

\* the last operation ended with a call of set_program_counter(SetAddr)
CounterWasSet ==
    \/ last.op = "read_word"
    \/ (last.op = "read_range" /\ rd.off >= 0)

\* C17: after set_program_counter(addr) the state is InConfig when addr lies
\* in the Config interval and InProgram otherwise, and the counter is
\* addr - dataStart for a Data address, else addr - configStart for a Config
\* address, else addr itself (gap addresses included).
C17_StateAndCounterAfterSet ==
    CounterWasSet =>
       /\ state = (IF SetAddr >= last.prof0.configStart /\ SetAddr <= last.prof0.configEnd
                   THEN STATE_CONFIG ELSE STATE_PROGRAM)
       /\ program_counter =
             (IF SetAddr >= last.prof0.dataStart /\ SetAddr <= last.prof0.dataEnd
              THEN SetAddr - last.prof0.dataStart
              ELSE IF SetAddr >= last.prof0.configStart /\ SetAddr <= last.prof0.configEnd
              THEN SetAddr - last.prof0.configStart
              ELSE SetAddr)

\* the first address past program memory, read from config memory: it is
\* treated as a Program address
C17_Witness ==
    /\ last.op = "read_word"
    /\ LastAddr = DefaultProgramEnd + 1
    /\ LastAddr > last.prof0.programEnd
    /\ last.st0 = STATE_CONFIG
    /\ last.pc0 = 7
    /\ state = STATE_PROGRAM
    /\ program_counter = DefaultProgramEnd + 1

\* the session the last operation started in
StartOfLast == Machine(last.st0, last.pc0, last.hw0, <<>>)

\* did the last operation issue the calls and commands of run r, and end in
\* the state and counter r ends in
SameRun(r) ==
    /\ r.m.log = last.log
    /\ r.m.state = state
    /\ r.m.pc = program_counter

\* C18: from every starting state, the relative read of config offset k
\* (configStart + k inside the Config interval) and read_word(configStart + k)
\* issue the same sequence of calls and commands and end in the same state
\* and counter.
C18_RelativeReadAsFlatRead ==
    /\ (last.op = "read_config_word"
          /\ last.prof0.configStart + last.arg[1] <= last.prof0.configEnd)
       => SameRun(read_word(StartOfLast, last.prof0, last.dev0,
                            last.prof0.configStart + last.arg[1]))
    /\ (last.op = "read_word"
          /\ LastAddr >= last.prof0.configStart /\ LastAddr <= last.prof0.configEnd
          /\ ~(LastAddr >= last.prof0.dataStart /\ LastAddr <= last.prof0.dataEnd))
       => SameRun(read_config_word(StartOfLast, last.dev0,
                                   LastAddr - last.prof0.configStart))

\* the relative read of the config word from program memory at counter 5:
\* load-config, seven increments, the read opcode
C18_Witness ==
    /\ last.op = "read_config_word"
    /\ last.arg = <<DEV_CONFIG_WORD>>
    /\ last.st0 = STATE_PROGRAM
    /\ last.pc0 = 5
    /\ last.log[1] = CMD_LOAD_CONFIG
    /\ Count(last.log, {CMD_INCREMENT_ADDRESS}) = 7
    /\ Len(last.log) = 9
    /\ state = STATE_CONFIG
    /\ program_counter = 7

\* the detection that ran last read no device id and zero in the other five
\* config words, and so ran the fallback scan
DetectedScan ==
    /\ last.op = "detect_device"
    /\ last.obs.deviceId \in {0, 16383}
    /\ \A i \in 1..4 : last.obs.userid[i] = 0
    /\ last.obs.configWord = 0

\* the scan concluded that every word it examined is zero
ConcludedAllZero ==
    /\ DetectedScan
    /\ \A i \in DOMAIN last.obs.scan : last.obs.scan[i] = 0

\* the reads of the scan: the read opcodes issued in state InProgram
ScanReads ==
    {i \in DOMAIN last.log :
        last.log[i] = CMD_READ_PROGRAM_MEMORY /\ last.at[i].st = STATE_PROGRAM}

\* the scan reads ascending addresses from 0 and stops at the first nonzero word
ScanAscendingUntilNonzero ==
    /\ Cardinality(ScanReads) = Len(last.obs.scan)
    /\ \A i \in ScanReads :
          last.at[i].pc = Cardinality({j \in ScanReads : j < i})
    /\ \A i \in 1..(Len(last.obs.scan) - 1) : last.obs.scan[i] = 0

\* the chip the last operation ran on holds one nonzero Program word, at
\* address a
OnlyNonzeroAt(a) ==
    /\ last.dev0.nz = a
    /\ last.dev0.uid = 0
    /\ last.dev0.cw = 0
    /\ last.dev0.id \in {0, 16383}

\* C19 as claimed: the fallback scan reads ascending addresses from 0, stops
\* at the first nonzero word and examines every address in 0..16 before it
\* concludes that all are zero; a device whose only nonzero word lies in
\* 0..16 is not taken for all-zero.
C19_ScanThrough16 ==
    DetectedScan =>
       /\ ScanAscendingUntilNonzero
       /\ ConcludedAllZero => Len(last.obs.scan) = 17
       /\ (\E a \in 0..16 : OnlyNonzeroAt(a)) => ~ConcludedAllZero

\* C19 amended: the fallback scan reads ascending addresses from 0, stops at
\* the first nonzero word and examines exactly the sixteen addresses 0..15
\* before it concludes that all are zero; a device whose only nonzero word
\* lies in 0..15 is not taken for all-zero, and a word at address 16 is never
\* read.
C19_ScanFirst16 ==
    DetectedScan =>
       /\ ScanAscendingUntilNonzero
       /\ ConcludedAllZero => Len(last.obs.scan) = 16
       /\ Len(last.obs.scan) <= 16
       /\ Len(last.obs.scan) < 16 => last.obs.scan[Len(last.obs.scan)] # 0
       /\ (\E a \in 0..15 : OnlyNonzeroAt(a)) => ~ConcludedAllZero
       /\ \A i \in ScanReads : last.at[i].pc < 16

\* a chip whose only nonzero word is at address 15: the sixteenth read of the
\* scan finds it, and the run goes on to the table lookup
C19_Witness ==
    /\ DetectedScan
    /\ OnlyNonzeroAt(15)
    /\ Len(last.obs.scan) = 16
    /\ last.obs.scan[16] # 0
    /\ ~ConcludedAllZero
    /\ Len(last.resp) = 1

\* CLOCK low and DATA configured as an output
LinesAtRest(h) == h.clock = 0 /\ h.dataDir = "out"

\* C20: for every 16-bit value v, send_read_command returns exactly v when
\* the data line carries the bits of v in the order the data phase of
\* send_write_command presents them (least significant first, one per clock
\* pulse); and every command leaves the clock low and the data line an
\* output when it returns.
C20_ReadRecoversWrittenWord ==
    /\ (last.op = "send_read_command" /\ last.arg[1] \in 0..65535)
          => last.val = last.arg[1]
    /\ (last.log # <<>> /\ last.log[Len(last.log)] \in DeviceCommands)
          => LinesAtRest(hw)
    /\ state # STATE_IDLE =>
          \A cmd \in DeviceCommands :
             /\ LinesAtRest(send_simple_command(Session, cmd).hw)
             /\ LinesAtRest(send_write_command(Session, cmd, 0).hw)
             /\ LinesAtRest(send_read_command(Session, dev, cmd).m.hw)

\* the value 0x1234 read back from the looped-back line in config memory
C20_Witness ==
    /\ last.op = "send_read_command"
    /\ last.arg = <<4660>>
    /\ last.val = 4660
    /\ last.st0 = STATE_CONFIG
    /\ hw.clock = 0
    /\ hw.dataDir = "out"

\* C21: read_range terminates with its 'done' response for every start <= end,
\* the largest address value included: once the end - start + 1 words of the
\* range have been read the loop condition is false, so the next step leaves
\* the loop and emits 'done'.
C21_LoopEndsAfterLastWord ==
    (last.op = "read_range" /\ rd.pcl = "loop"
       /\ last.arg[1] <= last.arg[2]
       /\ rd.count >= last.arg[2] - last.arg[1] + 1)
    => rd.start > rd.end

\* positions of the read opcodes in the log of the last operation
ReadsAt ==
    {i \in DOMAIN last.log :
        last.log[i] \in {CMD_READ_PROGRAM_MEMORY, CMD_READ_DATA_MEMORY}}

\* the read opcodes of the last log issued in state InConfig
ConfigReadsAt == {i \in ReadsAt : last.at[i].st = STATE_CONFIG}

\* the chip is powered and addresses offset off, in config space iff cfg,
\* when entry i of the last log is issued
ChipAddresses(i, off, cfg) ==
    /\ last.at[i].vdd
    /\ last.at[i].cpc = off
    /\ last.at[i].ccfg = cfg

\* the location read_word(a) is asked for under profile p: the opcode, the
\* offset and whether it lies in config space
WantedOpcode(p, a) ==
    IF a >= p.dataStart /\ a <= p.dataEnd
    THEN CMD_READ_DATA_MEMORY ELSE CMD_READ_PROGRAM_MEMORY
WantedOffset(p, a) ==
    IF a >= p.dataStart /\ a <= p.dataEnd THEN a - p.dataStart
    ELSE IF a >= p.configStart /\ a <= p.configEnd THEN a - p.configStart
    ELSE a
WantedConfig(p, a) ==
    /\ ~(a >= p.dataStart /\ a <= p.dataEnd)
    /\ a >= p.configStart /\ a <= p.configEnd

\* the config offsets a detection asks for, in order
DetectOffsets ==
    <<DEV_USERID0, DEV_USERID1, DEV_USERID2, DEV_USERID3, DEV_ID, DEV_CONFIG_WORD>>

\* C22: with the device's counter at 0 in Program/Data space after power-up,
\* at the first Config location after load-config and advancing by one per
\* increment-address command, every read opcode is sent while the device's
\* counter addresses the requested location: the Data offset with the
\* Data-read opcode, the Config offset in config space, or the Program
\* address; this after any sequence of reads, detections and resets.
C22_ChipCounterAtRequestedLocation ==
    /\ \A i \in ReadsAt :
          ChipAddresses(i, last.at[i].pc, last.at[i].st = STATE_CONFIG)
    /\ CounterWasSet =>
          /\ Len(last.log) \in ReadsAt
          /\ last.log[Len(last.log)] = WantedOpcode(last.prof0, SetAddr)
          /\ ChipAddresses(Len(last.log), WantedOffset(last.prof0, SetAddr),
                           WantedConfig(last.prof0, SetAddr))
    /\ last.op = "read_config_word" =>
          /\ Len(last.log) \in ReadsAt
          /\ last.log[Len(last.log)] = CMD_READ_PROGRAM_MEMORY
          /\ ChipAddresses(Len(last.log), last.arg[1], TRUE)
    /\ last.op = "detect_device" =>
          /\ Cardinality(ConfigReadsAt) = 6
          /\ \A i \in ConfigReadsAt :
                ChipAddresses(i, DetectOffsets[Cardinality({j \in ConfigReadsAt : j <= i})], TRUE)
          /\ \A i \in ScanReads :
                ChipAddresses(i, Cardinality({j \in ScanReads : j < i}), FALSE)

\* a Data read that follows a Program read without a reset: one increment
\* takes the device's counter from 0 to the Data offset 1
C22_Witness ==
    /\ last.op = "read_word"
    /\ last.st0 = STATE_PROGRAM
    /\ last.reg0 = "Program"
    /\ last.pc0 = 0
    /\ LastAddr = DefaultDataStart + 1
    /\ last.log = <<CMD_INCREMENT_ADDRESS, CMD_READ_DATA_MEMORY>>
    /\ hw.cpc = 1
    /\ ~hw.ccfg
    /\ last.val = 2

\* has a call of enter_program_mode or exit_program_mode acted before entry i
\* of the last log is issued (i = Len + 1: before the operation ended)
PinsDrivenBefore(i) ==
    \/ last.hw0 # HwInitial
    \/ \E j \in 1..(i - 1) : last.log[j] \in {EV_ENTER, EV_EXIT}

\* C23: once enter_program_mode or exit_program_mode has acted, the device is
\* powered with the programming voltage applied (VDD high, MCLR at VPP)
\* exactly when the state is not Idle, between operations and at every call
\* and command inside one; and every opcode is clocked out in a state other
\* than Idle, with the device powered.
C23_PoweredIffNotIdle ==
    /\ PinsDrivenBefore(Len(last.log) + 1) =>
          /\ (hw.vdd /\ hw.vpp) <=> (state # STATE_IDLE)
          /\ hw.vdd <=> hw.vpp
    /\ \A i \in DOMAIN last.log :
          /\ PinsDrivenBefore(i) =>
                /\ (last.at[i].vdd /\ last.at[i].vpp) <=> (last.at[i].st # STATE_IDLE)
                /\ last.at[i].vdd <=> last.at[i].vpp
          /\ last.log[i] \in DeviceCommands =>
                /\ last.at[i].st # STATE_IDLE
                /\ last.at[i].vdd
                /\ last.at[i].vpp

\* a detection started in config memory with the device powered: it ends
\* Idle with VDD and VPP removed
C23_Witness ==
    /\ last.op = "detect_device"
    /\ last.st0 = STATE_CONFIG
    /\ last.hw0.vdd
    /\ last.hw0.vpp
    /\ Count(last.log, DeviceCommands) > 0
    /\ state = STATE_IDLE
    /\ ~hw.vdd
    /\ ~hw.vpp

====
